---- MODULE Spec2Model ----
(***************************************************************************)
(* Model of the OSS upload service of obsidian-oss-uploader (the latest    *)
(* revision of the plugin, class OssService and its callers).              *)
(*                                                                         *)
(* Strings are sequences of one-character strings, so that concatenation,  *)
(* split('.'), includes('404') and the case of an extension are computed   *)
(* as the code computes them.  Opaque literals that are never taken apart  *)
(* ("https://", ".aliyuncs.com", error prefixes) are single elements.      *)
(* Time is the millisecond clock of the host; Date strings have a          *)
(* resolution of one second.                                               *)
(***************************************************************************)
EXTENDS Integers, Sequences, FiniteSets, TLC

\* ------------------------------------------------------------------ bounds
MaxLatencyTicks == 1       \* seconds that pass outside the backoff timers
MaxSettingChanges == 1     \* settings-tab edits during one run

\* ------------------------------------------------------- program constants
maxRetries == 3
TickMs == 1000             \* resolution of Date.toUTCString()

Uploads == {1}

\* ------------------------------------------------------------ string help
HexChars == <<"0","1","2","3","4","5","6","7","8","9","a","b","c","d","e","f">>
DecChars == <<"0","1","2","3","4","5","6","7","8","9">>

\* `${n}` of a non-negative integer: its decimal digits
RECURSIVE Digits(_)
Digits(n) == IF n < 10 THEN <<DecChars[n + 1]>>
             ELSE Digits(n \div 10) \o <<DecChars[(n % 10) + 1]>>

\* String.prototype.includes
includes(s, sub) ==
    \E i \in 1..(Len(s) - Len(sub) + 1) : SubSeq(s, i, i + Len(sub) - 1) = sub

\* lower-casing of one character, as the /i flag of a RegExp compares
LowerChar(c) ==
    CASE c = "P" -> "p" [] c = "N" -> "n" [] c = "G" -> "g"
      [] c = "J" -> "j" [] c = "E" -> "e" [] c = "T" -> "t"
      [] c = "X" -> "x" [] OTHER -> c

toLowerCase(s) == [i \in 1..Len(s) |-> LowerChar(s[i])]

\* fileName.split('.').pop() || ''
LastDot(s) ==
    IF \E i \in 1..Len(s) : s[i] = "."
    THEN CHOOSE i \in 1..Len(s) : s[i] = "." /\ \A j \in (i + 1)..Len(s) : s[j] # "."
    ELSE 0

fileExtOf(fileName) == SubSeq(fileName, LastDot(fileName) + 1, Len(fileName))

\* /^(png|jpe?g|gif|webp|bmp)$/i.test(fileExt)
ImageExts == { <<"p","n","g">>, <<"j","p","g">>, <<"j","p","e","g">>,
               <<"g","i","f">>, <<"w","e","b","p">>, <<"b","m","p">> }

\* variant: the test without the /i flag
isImageExt_caseSensitive(fileExt) == fileExt \in ImageExts

isImageExt(fileExt) == toLowerCase(fileExt) \in ImageExts

\* ------------------------------------------------------------------ hash
\* crypto.subtle.digest('SHA-256', data): a deterministic digest of the
\* bytes, here two bytes wide (a polynomial checksum stands for SHA-256).
RECURSIVE Mix(_, _)
Mix(data, acc) == IF data = <<>> THEN acc
                  ELSE Mix(Tail(data), (acc * 31 + Head(data) + 7) % 65536)

digest(data) == <<Mix(data, 0) \div 256, Mix(data, 0) % 256>>

\* b.toString(16).padStart(2, '0')
toString16(b) == IF b < 16 THEN <<HexChars[b + 1]>>
                 ELSE <<HexChars[(b \div 16) + 1], HexChars[(b % 16) + 1]>>

padStart2(s) == IF Len(s) < 2 THEN <<"0">> \o s ELSE s

RECURSIVE joinHex(_)
joinHex(bytes) == IF bytes = <<>> THEN <<>>
                  ELSE padStart2(toString16(Head(bytes))) \o joinHex(Tail(bytes))

calculateHash(data) == joinHex(digest(data))

\* ------------------------------------------------------------- settings
\* AliyunOssSettings / DEFAULT_SETTINGS.  maxSizeMB is kept in tenths of a
\* megabyte (0.3 MB is 3).
DEFAULT_SETTINGS ==
    [ accessKeyId |-> <<>>, accessKeySecret |-> <<>>, bucket |-> <<>>,
      region |-> <<>>, customDomain |-> <<>>, path |-> <<"o","/">>,
      enableCompression |-> TRUE, maxSizeMB |-> 3, maxWidthOrHeight |-> 1280 ]

\* values a user can type into the settings tab
FieldValues ==
    [ accessKeyId |-> {<<>>, <<"k">>},
      accessKeySecret |-> {<<>>, <<"s">>},
      bucket |-> {<<>>, <<"b">>, <<"c">>},
      region |-> {<<>>, <<"r">>},
      customDomain |-> {<<>>, <<"https://cdn">>},
      path |-> {<<"o","/">>, <<"q","/">>},
      enableCompression |-> BOOLEAN,
      maxSizeMB |-> {1, 3},
      maxWidthOrHeight |-> {640, 1280} ]

SettingFields == DOMAIN FieldValues

Configured ==
    [DEFAULT_SETTINGS EXCEPT !.accessKeyId = <<"k">>, !.accessKeySecret = <<"s">>,
                             !.bucket = <<"b">>, !.region = <<"r">>]

\* loadSettings: DEFAULT_SETTINGS overlaid with the saved data
SavedSettings ==
    { DEFAULT_SETTINGS, Configured }
    \cup { [Configured EXCEPT ![f] = <<>>] :
             f \in {"accessKeyId", "accessKeySecret", "bucket", "region"} }
    \cup { [Configured EXCEPT !.customDomain = <<"https://cdn">>],
           [Configured EXCEPT !.enableCompression = FALSE],
           [Configured EXCEPT !.path = <<"q","/">>, !.maxSizeMB = 1,
                              !.maxWidthOrHeight = 640] }

\* validateSettings: "ok" or the message of the Error it throws
validateSettings(s) ==
    IF s.accessKeyId = <<>> THEN <<"missing Access Key ID">>
    ELSE IF s.accessKeySecret = <<>> THEN <<"missing Access Key Secret">>
    ELSE IF s.bucket = <<>> THEN <<"missing Bucket">>
    ELSE IF s.region = <<>> THEN <<"missing Region">>
    ELSE <<"ok">>

\* `https://${bucket}.${region}.aliyuncs.com`
defaultHost(s) == <<"https://">> \o s.bucket \o <<".">> \o s.region \o <<".aliyuncs.com">>

\* `https://${bucket}.${region}.aliyuncs.com/${ossPath}`
endpointOf(s, ossPath) == defaultHost(s) \o <<"/">> \o ossPath

\* this.settings.customDomain || `https://...aliyuncs.com`, then `${baseUrl}/${ossPath}`
objectUrl(s, ossPath) ==
    (IF s.customDomain # <<>> THEN s.customDomain ELSE defaultHost(s)) \o <<"/">> \o ossPath

\* variant: the digest is taken of the compressed bytes, as the first
\* revision of the plugin did
ossPathOf_compressed(s, fileContent, fileExt) ==
    s.path
    \o calculateHash(IF s.enableCompression /\ toLowerCase(fileExt) \in ImageExts
                     THEN <<Head(fileContent)>> ELSE fileContent)
    \o <<".">> \o fileExt

\* `${this.settings.path}${originalHash}.${fileExt}`
ossPathOf(s, fileContent, fileExt) ==
    s.path \o calculateHash(fileContent) \o <<".">> \o fileExt

\* ------------------------------------------------------------- signing
\* new Date().toUTCString(): the clock truncated to whole seconds
toUTCString(t) == Digits(t \div 1000)

\* variant: the signed resource leaves out the bucket
stringToSignOf_noBucket(verb, contentType, date, s, ossPath) ==
    << <<verb>>, <<>>, contentType, date, <<"/">> \o ossPath >>

\* the five lines of a string-to-sign, joined by "\n" in the code
stringToSignOf(verb, contentType, date, s, ossPath) ==
    << <<verb>>, <<>>, contentType, date, <<"/">> \o s.bucket \o <<"/">> \o ossPath >>

\* calculateSignature: base64(HMAC-SHA1(secret, stringToSign)), a value
\* determined by, and determining, both arguments
calculateSignature(stringToSign, accessKeySecret) ==
    [hmacOf |-> stringToSign, key |-> accessKeySecret]

\* `OSS ${accessKeyId}:${signature}`
authorizationOf(s, signature) ==
    [scheme |-> "OSS", accessKeyId |-> s.accessKeyId, signature |-> signature]

NoSignature == calculateSignature(<< <<>>, <<>>, <<>>, <<>>, <<>> >>, <<>>)
NoAuthorization == [scheme |-> "", accessKeyId |-> <<>>, signature |-> NoSignature]

\* `image/${fileExt}`
contentTypeOf(fileExt) == <<"image/">> \o fileExt

RECURSIVE pow2(_)
pow2(n) == IF n = 0 THEN 1 ELSE 2 * pow2(n - 1)

\* variant: a fixed delay instead of the exponential one
delayOf_constant(retryCount) == 1000

\* Math.pow(2, retryCount) * 1000
delayOf(retryCount) == pow2(retryCount) * 1000

\* --------------------------------------------------------- environment
\* requestUrl returns the response when the status is below 400 and throws
\* an Error otherwise; a transport failure throws too (status 0 here).
ReturnedStatuses == {200, 204, 304}
ThrownStatuses == {403, 404}

Returned(status) == [threw |-> FALSE, status |-> status, message |-> <<>>]
RequestFailed(status) ==
    [threw |-> TRUE, status |-> status,
     message |-> <<"Request failed, status ">> \o Digits(status)]
TransportError ==
    [threw |-> TRUE, status |-> 0, message |-> <<"net::ERR_CONNECTION_RESET">>]

\* what a HEAD of url can end in, given the objects the store holds
HeadOutcomes(objects, url) ==
    (IF url \in objects THEN {Returned(200)} ELSE {RequestFailed(404)})
    \cup {Returned(st) : st \in ReturnedStatuses \ {200}}
    \cup {RequestFailed(st) : st \in ThrownStatuses \ {404}}
    \cup {TransportError}

\* what a PUT can end in
PutOutcomes ==
    {Returned(st) : st \in ReturnedStatuses \ {304}}
    \cup {RequestFailed(st) : st \in ThrownStatuses \ {404}}
    \cup {TransportError}

\* imageCompression(file, options): the re-encoded bytes, or a failure
Payloads == { <<137, 80>>, <<255, 216, 9>> }

compressed(fileContent) == { fileContent, <<Head(fileContent)>> }

FileNames == { <<"a",".","p","n","g">>, <<"a",".","P","N","G">>, <<"a",".","t","x","t">> }

\* the callers of the service: uploadFile, the file-menu item (uploadImage),
\* paste and drop (handleImageUpload), and a direct call that skips the probe
Entries == {"uploadFile", "uploadImage", "handleImageUpload", "uploadWithCompression"}

skipExistCheckOf(entry) == entry = "uploadWithCompression"

\* objects another device may have stored already
PreStored ==
    { endpointOf(Configured, ossPathOf(Configured, b, fileExtOf(n))) :
        b \in Payloads, n \in FileNames }

\* ---------------------------------------------------------------- state
VARIABLES
    settings,         \* the settings object shared by plugin, tab and service
    now,              \* the host clock, ms
    objects,          \* URLs of the objects the store holds
    changes,          \* settings-tab edits made so far
    ticks,            \* seconds passed outside the backoff timers
    call,             \* per upload: the locals of the running call
    sent,             \* per upload: the requests issued, in order
    transformCalls,   \* per upload: calls of imageCompression
    delays            \* per upload: the backoff delays waited, in order

vars == <<settings, now, objects, changes, ticks, call, sent, transformCalls, delays>>

\* an Error object: every error of the program is a plain Error with a message
Error(message) == [name |-> "Error", message |-> message]

NoError == [name |-> "", message |-> <<>>]

NoCall ==
    [ pc |-> "idle", entry |-> "none", fileContent |-> <<>>, fileName |-> <<>>,
      skipExistCheck |-> FALSE, fileExt |-> <<>>, ossPath |-> <<>>,
      fileExists |-> "unknown", transformError |-> NoError,
      startSettings |-> DEFAULT_SETTINGS,
      finalContent |-> <<>>, date |-> <<>>, signature |-> NoSignature,
      authorization |-> NoAuthorization, endpoint |-> <<>>, contentType |-> <<>>,
      retryCount |-> 0, wakeAt |-> 0, lastResponse |-> Returned(0),
      returned |-> <<>>, thrown |-> NoError ]

\* a requestUrl call: the request, and the clock reading when it was issued
Request(method, url, authorization, date, contentType, body) ==
    [ method |-> method, url |-> url, Authorization |-> authorization,
      Date |-> date, ContentType |-> contentType, body |-> body, at |-> now ]

Init ==
    /\ settings \in SavedSettings
    /\ now = 0
    /\ objects \in {{}, PreStored}
    /\ changes = 0
    /\ ticks = 0
    /\ call = [u \in Uploads |-> NoCall]
    /\ sent = [u \in Uploads |-> <<>>]
    /\ transformCalls = [u \in Uploads |-> 0]
    /\ delays = [u \in Uploads |-> <<>>]

\* ----------------------------- the synchronous stretches of the call
\* generateSignature up to its await: date, stringToSign, calculateSignature(...)
beginPutSign(c) ==
    [c EXCEPT !.pc = "putSign",
              !.contentType = contentTypeOf(c.fileExt),
              !.date = toUTCString(now),
              !.signature = calculateSignature(
                  stringToSignOf("PUT", contentTypeOf(c.fileExt), toUTCString(now),
                                 settings, c.ossPath),
                  settings.accessKeySecret)]

\* variant: the PUT is signed before the transformer has run
afterExistCheck_signFirst(c) ==
    IF settings.enableCompression /\ isImageExt(c.fileExt)
    THEN [beginPutSign(c) EXCEPT !.pc = "transform", !.finalContent = c.fileContent]
    ELSE beginPutSign([c EXCEPT !.finalContent = c.fileContent])

\* after the existence check: compress an image when compression is on,
\* else sign the original bytes
afterExistCheck(c) ==
    IF settings.enableCompression /\ isImageExt(c.fileExt)
    THEN [c EXCEPT !.pc = "transform", !.finalContent = c.fileContent]
    ELSE beginPutSign([c EXCEPT !.finalContent = c.fileContent])

\* checkFileExists up to its await: endpoint, date, stringToSign, calculateSignature(...)
beginHeadSign(c) ==
    [c EXCEPT !.pc = "headSign",
              !.endpoint = endpointOf(settings, c.ossPath),
              !.date = toUTCString(now),
              !.signature = calculateSignature(
                  stringToSignOf("HEAD", <<>>, toUTCString(now), settings, c.ossPath),
                  settings.accessKeySecret)]

\* return `${baseUrl}/${ossPath}`
returnUrl(c) == [c EXCEPT !.pc = "done", !.returned = objectUrl(settings, c.ossPath)]

throw(c, message) == [c EXCEPT !.pc = "failed", !.thrown = Error(message)]

\* variant: the short-circuit returns the endpoint, whatever the custom domain
onExists_endpoint(c) ==
    [c EXCEPT !.pc = "done", !.returned = endpointOf(settings, c.ossPath)]

\* variant: the verdict is ignored and the call goes on to upload
onExists_fallthrough(c) == afterExistCheck(c)

\* if (fileExists) return the URL: no transform, no upload
onExists(c) == returnUrl(c)

\* the PUT of one attempt of the retried operation
putRequest(c) ==
    Request("PUT", c.endpoint, c.authorization, toUTCString(now), c.contentType,
            c.finalContent)

\* variant: the error requestUrl threw is lost and a status is reported
attemptError_statusOnly(o) == <<"upload failed: HTTP ">> \o Digits(o.status)

\* the error an attempt ends in: requestUrl's, or `upload failed: HTTP ${status}`
attemptError(o) ==
    IF o.threw THEN o.message ELSE <<"upload failed: HTTP ">> \o Digits(o.status)

\* ---------------------------------------------------------------- actions
\* uploadFile validates first; uploadImage and handleImageUpload call
\* uploadWithCompression directly.  The call runs to `await calculateHash`.
Start(u, entry, fileContent, fileName) ==
    /\ call[u].pc = "idle"
    /\ LET c == [NoCall EXCEPT !.entry = entry, !.fileContent = fileContent,
                               !.fileName = fileName, !.startSettings = settings,
                               !.skipExistCheck = skipExistCheckOf(entry)]
       IN call' = [call EXCEPT ![u] =
              IF entry = "uploadFile" /\ validateSettings(settings) # <<"ok">>
              THEN throw(c, validateSettings(settings))
              ELSE [c EXCEPT !.pc = "hash", !.fileExt = fileExtOf(fileName)]]
    /\ UNCHANGED <<settings, now, objects, changes, ticks, sent, transformCalls, delays>>

\* calculateHash resolves: the key, then the probe or the transform
HashDone(u) ==
    /\ call[u].pc = "hash"
    /\ LET c == [call[u] EXCEPT !.ossPath =
                     ossPathOf(settings, call[u].fileContent, call[u].fileExt)]
           d == IF c.skipExistCheck THEN afterExistCheck(c) ELSE beginHeadSign(c)
       IN /\ call' = [call EXCEPT ![u] = d]
          /\ transformCalls' = [transformCalls EXCEPT ![u] =
                                   IF d.pc = "transform" THEN @ + 1 ELSE @]
    /\ UNCHANGED <<settings, now, objects, changes, ticks, sent, delays>>

\* checkFileExists: the signature resolves, the HEAD request goes out
HeadSigned(u) ==
    /\ call[u].pc = "headSign"
    /\ LET a == authorizationOf(settings, call[u].signature)
       IN /\ call' = [call EXCEPT ![u] = [@ EXCEPT !.pc = "head", !.authorization = a]]
          /\ sent' = [sent EXCEPT ![u] =
                 Append(@, Request("HEAD", call[u].endpoint, a, call[u].date, <<>>, <<>>))]
    /\ UNCHANGED <<settings, now, objects, changes, ticks, transformCalls, delays>>

\* checkFileExists: the verdict on the outcome o of the HEAD request;
\* "true", "false" or "throw"
existsVerdict_anyResponse(o) ==
    IF ~o.threw THEN "true"
    ELSE IF includes(o.message, <<"4","0","4">>) THEN "false"
    ELSE "throw"

existsVerdict_swallow(o) ==
    IF ~o.threw /\ o.status = 200 THEN "true" ELSE "false"

existsVerdict(o) ==
    IF ~o.threw THEN (IF o.status = 200 THEN "true" ELSE "false")
    ELSE IF includes(o.message, <<"4","0","4">>) THEN "false"
    ELSE "throw"

HeadResponse(u, o) ==
    /\ call[u].pc = "head"
    /\ o \in HeadOutcomes(objects, call[u].endpoint)
    /\ LET c == [call[u] EXCEPT !.lastResponse = o,
                                !.fileExists = IF existsVerdict(o) = "throw"
                                               THEN "unknown" ELSE existsVerdict(o)]
           d == CASE existsVerdict(o) = "true" -> onExists(c)
                  [] existsVerdict(o) = "false" -> afterExistCheck(c)
                  [] OTHER -> throw(c, o.message)
       IN /\ call' = [call EXCEPT ![u] = d]
          /\ transformCalls' = [transformCalls EXCEPT ![u] =
                                   IF d.pc = "transform" THEN @ + 1 ELSE @]
    /\ UNCHANGED <<settings, now, objects, changes, ticks, sent, delays>>

\* imageCompression resolves with the re-encoded bytes, then signing starts
TransformDone(u, bytes) ==
    /\ call[u].pc = "transform"
    /\ bytes \in compressed(call[u].fileContent)
    /\ call' = [call EXCEPT ![u] = beginPutSign([@ EXCEPT !.finalContent = bytes])]
    /\ UNCHANGED <<settings, now, objects, changes, ticks, sent, transformCalls, delays>>

\* variant: a failed compression falls back to uploading the original bytes
onTransformError_fallback(c) == beginPutSign([c EXCEPT !.finalContent = c.fileContent])

\* the rejection of `await imageCompression(...)` is not caught: the call throws it
onTransformError(c) == throw(c, c.transformError.message)

\* imageCompression rejects: the upload fails
TransformFailed(u) ==
    /\ call[u].pc = "transform"
    /\ call' = [call EXCEPT ![u] =
           onTransformError([@ EXCEPT !.transformError = Error(<<"compression failed">>)])]
    /\ UNCHANGED <<settings, now, objects, changes, ticks, sent, transformCalls, delays>>

\* generateSignature resolves; retryOperation(operation, 0) issues the first PUT
PutSigned(u) ==
    /\ call[u].pc = "putSign"
    /\ LET c == [call[u] EXCEPT !.pc = "put",
                                !.authorization = authorizationOf(settings, call[u].signature),
                                !.endpoint = endpointOf(settings, call[u].ossPath),
                                !.retryCount = 0]
       IN /\ call' = [call EXCEPT ![u] = c]
          /\ sent' = [sent EXCEPT ![u] = Append(@, putRequest(c))]
    /\ UNCHANGED <<settings, now, objects, changes, ticks, transformCalls, delays>>

\* an attempt ends: status 200 returns the URL; anything else is an error,
\* retried after the backoff delay while retryCount < maxRetries
retryAgain_always(retryCount) == TRUE
retryAgain_offByOne(retryCount) == retryCount <= maxRetries

retryAgain(retryCount) == retryCount < maxRetries

\* variant: any 2xx status counts as success
putSucceeded_2xx(o) == ~o.threw /\ o.status \in 200..299

\* the operation resolves when the response came back with status 200
putSucceeded(o) == ~o.threw /\ o.status = 200

PutResponse(u, o) ==
    /\ call[u].pc = "put"
    /\ o \in PutOutcomes
    /\ LET c == [call[u] EXCEPT !.lastResponse = o]
       IN IF putSucceeded(o)
          THEN /\ call' = [call EXCEPT ![u] = returnUrl(c)]
               /\ delays' = delays
          ELSE IF retryAgain(c.retryCount)
          THEN /\ call' = [call EXCEPT ![u] =
                      [c EXCEPT !.pc = "backoff",
                                !.wakeAt = now + delayOf(c.retryCount)]]
               /\ delays' = [delays EXCEPT ![u] = Append(@, delayOf(c.retryCount))]
          ELSE /\ call' = [call EXCEPT ![u] = throw(c, attemptError(o))]
               /\ delays' = delays
    /\ objects' = IF ~o.threw THEN objects \cup {call[u].endpoint} ELSE objects
    /\ UNCHANGED <<settings, now, changes, ticks, sent, transformCalls>>

\* variant: the retry does not wait for the timer
timerDue_atOnce(c) == TRUE

\* setTimeout(resolve, delay) has run out
timerDue(c) == now >= c.wakeAt

\* the setTimeout of the backoff fires: retryOperation(operation, retryCount + 1)
BackoffDone(u) ==
    /\ call[u].pc = "backoff"
    /\ timerDue(call[u])
    /\ LET c == [call[u] EXCEPT !.pc = "put", !.retryCount = @ + 1]
       IN /\ call' = [call EXCEPT ![u] = c]
          /\ sent' = [sent EXCEPT ![u] = Append(@, putRequest(c))]
    /\ UNCHANGED <<settings, now, objects, changes, ticks, transformCalls, delays>>

\* an onChange handler of the settings tab writes one field of the shared object
onChange(field, value) ==
    /\ changes < MaxSettingChanges
    /\ value \in FieldValues[field]
    /\ value # settings[field]
    /\ settings' = [settings EXCEPT ![field] = value]
    /\ changes' = changes + 1
    /\ UNCHANGED <<now, objects, ticks, call, sent, transformCalls, delays>>

\* a second passes while a call waits for the network or for crypto
Tick ==
    /\ ticks < MaxLatencyTicks
    /\ \E u \in DOMAIN call : call[u].pc \notin {"idle", "done", "failed"}
    /\ now' = now + TickMs
    /\ ticks' = ticks + 1
    /\ UNCHANGED <<settings, objects, changes, call, sent, transformCalls, delays>>

\* time passes until the earliest pending backoff timer is due
PendingTimers == {call[u].wakeAt : u \in {v \in DOMAIN call : call[v].pc = "backoff"}}

TimerTick ==
    /\ PendingTimers # {}
    /\ \A t \in PendingTimers : now < t
    /\ now' = CHOOSE t \in PendingTimers : \A t2 \in PendingTimers : t <= t2
    /\ UNCHANGED <<settings, objects, changes, ticks, call, sent, transformCalls, delays>>

Next ==
    \/ \E u \in Uploads, e \in Entries, b \in Payloads, n \in FileNames : Start(u, e, b, n)
    \/ \E u \in Uploads : HashDone(u)
    \/ \E u \in Uploads : HeadSigned(u)
    \/ \E u \in Uploads : \E o \in HeadOutcomes(objects, call[u].endpoint) : HeadResponse(u, o)
    \/ \E u \in Uploads, b \in UNION {compressed(p) : p \in Payloads} : TransformDone(u, b)
    \/ \E u \in Uploads : TransformFailed(u)
    \/ \E u \in Uploads : PutSigned(u)
    \/ \E u \in Uploads, o \in PutOutcomes : PutResponse(u, o)
    \/ \E u \in Uploads : BackoffDone(u)
    \/ Tick
    \/ TimerTick

\* uploads under a configuration that is not edited while they run
Spec == Init /\ [][Next]_vars

\* the same with the settings tab open: fields are edited while uploads run
InitTab ==
    /\ Init
    /\ settings = Configured

NextTab ==
    \/ Next
    \/ \E f \in SettingFields : \E v \in FieldValues[f] : onChange(f, v)

SpecTab == InitTab /\ [][NextTab]_vars

\* every pending await of a call (hash, signature, request, transformer) and
\* every backoff timer eventually completes
Completion ==
    \/ \E u \in Uploads : HashDone(u) \/ HeadSigned(u) \/ PutSigned(u) \/ BackoffDone(u)
    \/ \E u \in Uploads : \E o \in HeadOutcomes(objects, call[u].endpoint) : HeadResponse(u, o)
    \/ \E u \in Uploads, b \in UNION {compressed(p) : p \in Payloads} : TransformDone(u, b)
    \/ \E u \in Uploads : TransformFailed(u)
    \/ \E u \in Uploads, o \in PutOutcomes : PutResponse(u, o)
    \/ TimerTick

SpecLive == Init /\ [][Next]_vars /\ WF_vars(Completion)

\* two paste events with the same image: handleImageUpload runs twice, each
\* run with its own call of uploadWithCompression, against an empty store;
\* the clock advances from backoff timer to backoff timer
Pair == {1, 2}
PastedContent == <<137, 80>>
PastedName == <<"a", ".", "p", "n", "g">>

\* the answers of the store in this scenario: present or absent to the
\* probe, stored or refused to the PUT
PairHeadOutcomes(url) == HeadOutcomes(objects, url) \cap {Returned(200), RequestFailed(404)}
PairPutOutcomes == PutOutcomes \cap {Returned(200), RequestFailed(403)}

InitPair ==
    /\ settings = Configured
    /\ now = 0
    /\ objects = {}
    /\ changes = 0
    /\ ticks = 0
    /\ call = [u \in Pair |-> NoCall]
    /\ sent = [u \in Pair |-> <<>>]
    /\ transformCalls = [u \in Pair |-> 0]
    /\ delays = [u \in Pair |-> <<>>]

NextPair ==
    \/ \E u \in Pair : Start(u, "handleImageUpload", PastedContent, PastedName)
    \/ \E u \in Pair : HashDone(u)
    \/ \E u \in Pair : HeadSigned(u)
    \/ \E u \in Pair : \E o \in PairHeadOutcomes(call[u].endpoint) : HeadResponse(u, o)
    \/ \E u \in Pair, b \in compressed(PastedContent) : TransformDone(u, b)
    \/ \E u \in Pair : TransformFailed(u)
    \/ \E u \in Pair : PutSigned(u)
    \/ \E u \in Pair, o \in PairPutOutcomes : PutResponse(u, o)
    \/ \E u \in Pair : BackoffDone(u)
    \/ TimerTick

SpecPair == InitPair /\ [][NextPair]_vars

\* ================================================================ claims
IsPut(r) == r.method = "PUT"
IsHead(r) == r.method = "HEAD"
PutsOf(u) == SelectSeq(sent[u], IsPut)
PutCount(u) == Len(PutsOf(u))
HeadCount(u) == Len(SelectSeq(sent[u], IsHead))

Incomplete(s) ==
    s.accessKeyId = <<>> \/ s.accessKeySecret = <<>> \/ s.bucket = <<>> \/ s.region = <<>>

ConfigMessages ==
    { <<"missing Access Key ID">>, <<"missing Access Key Secret">>,
      <<"missing Bucket">>, <<"missing Region">> }

\* the call of upload u has passed line 114: its storage key exists
KeyComputed(u) ==
    \/ call[u].pc \in {"headSign", "head", "transform", "putSign", "put", "backoff", "done"}
    \/ call[u].pc = "failed" /\ call[u].thrown.message \notin ConfigMessages

\* C1: whatever the entry point, an upload started with an empty access key
\* id, access key secret, bucket or region issues no HEAD and no PUT request
\* and can only end in a configuration error.
C1_ConfigGating ==
    \A u \in DOMAIN call :
        (call[u].pc # "idle" /\ Incomplete(settings)) =>
            /\ sent[u] = <<>>
            /\ call[u].pc # "done"
            /\ call[u].pc = "failed" => call[u].thrown.message \in ConfigMessages

\* C2: once the existence check has reported the key present, the call has
\* returned the object URL, the transformer was never called and no PUT was
\* issued.
C2_DedupShortCircuit ==
    \A u \in DOMAIN call :
        call[u].fileExists = "true" =>
            /\ call[u].pc = "done"
            /\ call[u].returned = objectUrl(settings, call[u].ossPath)
            /\ transformCalls[u] = 0
            /\ PutCount(u) = 0

C2_Witness ==
    \E u \in DOMAIN call :
        /\ ~call[u].skipExistCheck
        /\ call[u].fileExists = "true"
        /\ HeadCount(u) = 1
        /\ call[u].pc = "done"

\* the key as the claim states it: a function of path prefix, original bytes
\* and file name alone
ExpectedKey(path, bytes, fileName) ==
    path \o joinHex(digest(bytes)) \o <<".">> \o fileExtOf(fileName)

\* C3: the storage key of a call is path prefix + hex digest of the original
\* bytes + "." + extension, whatever the compression settings are and whatever
\* the transformer returned; every request of the call addresses that key.
C3_KeyOfOriginalBytes ==
    \A u \in DOMAIN call :
        KeyComputed(u) =>
            /\ call[u].ossPath =
                   ExpectedKey(settings.path, call[u].fileContent, call[u].fileName)
            /\ \A i \in 1..Len(sent[u]) :
                   sent[u][i].url =
                       endpointOf(settings, ExpectedKey(settings.path, call[u].fileContent,
                                                        call[u].fileName))

C3_Witness ==
    \E u \in DOMAIN call :
        /\ call[u].pc = "done"
        /\ transformCalls[u] = 1
        /\ call[u].finalContent # call[u].fileContent
        /\ PutCount(u) >= 1
        /\ settings.maxSizeMB = 1

\* C4: a call issues at most 4 PUT requests; it waits for a retry only while
\* fewer than 4 were issued, and a call that fails after its first PUT has
\* issued exactly 4, with 3 backoff delays between them.
C4_FourAttempts ==
    \A u \in DOMAIN call :
        /\ PutCount(u) <= 4
        /\ call[u].pc = "backoff" => PutCount(u) < 4
        /\ (call[u].pc = "failed" /\ PutCount(u) > 0) =>
               (PutCount(u) = 4 /\ Len(delays[u]) = 3)

C4_Witness ==
    \E u \in DOMAIN call :
        /\ call[u].pc = "failed"
        /\ PutCount(u) = 4
        /\ call[u].lastResponse = RequestFailed(403)

\* C5: a call that returns after 3 PUT requests (two failed attempts, then a
\* success) has waited 1000 ms and then 2000 ms, each retry was issued no
\* earlier than the delay after the attempt before it, and the URL is
\* returned; in general the n-th delay is 2^(n-1) * 1000 ms.
C5_Backoff ==
    \A u \in DOMAIN call :
        /\ \A n \in 1..Len(delays[u]) : delays[u][n] = pow2(n - 1) * 1000
        /\ \A n \in 2..PutCount(u) :
               PutsOf(u)[n].at - PutsOf(u)[n - 1].at >= delays[u][n - 1]
        /\ (call[u].pc = "done" /\ PutCount(u) = 3) =>
               /\ delays[u] = <<1000, 2000>>
               /\ call[u].returned = objectUrl(settings, call[u].ossPath)

C5_Witness ==
    \E u \in DOMAIN call :
        /\ call[u].pc = "done"
        /\ PutCount(u) = 3
        /\ call[u].lastResponse = Returned(200)
        /\ PutsOf(u)[2].at - PutsOf(u)[1].at = 1000
        /\ PutsOf(u)[3].at - PutsOf(u)[2].at = 2000

\* the call of upload u ended because its PUT attempts were exhausted
Exhausted(u) == call[u].pc = "failed" /\ PutCount(u) = 4

HeadAnswered(u) ==
    /\ HeadCount(u) = 1
    /\ PutCount(u) = 0
    /\ call[u].pc \in {"transform", "putSign", "done", "failed"}

\* C7: checkFileExists answers false only on the not-found signal (404) and
\* true only on a successful probe; every other outcome of the probe is
\* raised as an error.
C7_OnlyNotFoundIsAbsent ==
    \A u \in DOMAIN call :
        HeadAnswered(u) =>
            /\ call[u].fileExists = "false" => call[u].lastResponse = RequestFailed(404)
            /\ call[u].fileExists = "true" => call[u].lastResponse = Returned(200)
            /\ call[u].lastResponse \notin {Returned(200), RequestFailed(404)} =>
                   /\ call[u].pc = "failed"
                   /\ call[u].thrown.message = call[u].lastResponse.message

\* C8: when the probe threw anything but not-found, the call has failed with
\* that very error after exactly one HEAD request, without calling the
\* transformer and without a PUT request.
C8_ProbeErrorPropagates ==
    \A u \in DOMAIN call :
        ( /\ HeadCount(u) >= 1
          /\ call[u].pc # "head"
          /\ PutCount(u) = 0
          /\ call[u].lastResponse.threw
          /\ call[u].lastResponse.status # 404 ) =>
            /\ call[u].pc = "failed"
            /\ call[u].thrown = Error(call[u].lastResponse.message)
            /\ HeadCount(u) = 1
            /\ transformCalls[u] = 0

C8_Witness ==
    \E u \in DOMAIN call :
        /\ call[u].pc = "failed"
        /\ call[u].lastResponse = RequestFailed(403)
        /\ HeadCount(u) = 1
        /\ PutCount(u) = 0

\* C9: every PUT request carries an Authorization whose signature was made
\* over the timestamp that the same request sends as its Date header.
C9_FreshSignaturePerAttempt ==
    \A u \in DOMAIN call :
        \A i \in 1..Len(sent[u]) :
            sent[u][i].method = "PUT" =>
                sent[u][i].Authorization.signature.hmacOf[4] = sent[u][i].Date

\* a PUT of upload u has just been answered: lastResponse is its outcome
PutAnswered(u) == PutCount(u) >= 1 /\ call[u].pc \in {"backoff", "done", "failed"}

\* C10 (as claimed): an attempt answered with a 2xx status ends the transfer
\* successfully; every other outcome is retried while fewer than 4 attempts
\* were made.
C10_RetryUnless2xx ==
    \A u \in DOMAIN call :
        PutAnswered(u) =>
            LET o == call[u].lastResponse
                ok == ~o.threw /\ o.status \in 200..299
            IN /\ ok => call[u].pc = "done"
               /\ (~ok /\ PutCount(u) < 4) => call[u].pc = "backoff"

\* C10 (amended): an attempt answered with status 200 ends the transfer
\* successfully; every other outcome (any other returned status, other 2xx
\* included, an error status, authentication rejection included, or a
\* transport error) is retried while fewer than 4 attempts were made, and
\* fails the upload at the 4th.
C10_RetryUnless200 ==
    \A u \in DOMAIN call :
        PutAnswered(u) =>
            LET o == call[u].lastResponse
                ok == ~o.threw /\ o.status = 200
            IN /\ ok => call[u].pc = "done"
               /\ (~ok /\ PutCount(u) < 4) => call[u].pc = "backoff"
               /\ (~ok /\ PutCount(u) = 4) => call[u].pc = "failed"

C10_Witness ==
    \E u \in DOMAIN call :
        /\ call[u].pc = "put"
        /\ PutCount(u) = 3
        /\ PutsOf(u)[2].at > PutsOf(u)[1].at
        /\ call[u].lastResponse = RequestFailed(403)
        /\ Len(delays[u]) = 2

\* C11: when the transformer has failed, the call has failed with the
\* transformer's error and has issued no PUT request, neither for the
\* transformed nor for the original bytes.
C11_TransformErrorAborts ==
    \A u \in DOMAIN call :
        call[u].transformError # NoError =>
            /\ call[u].pc = "failed"
            /\ call[u].thrown = call[u].transformError
            /\ PutCount(u) = 0

C11_Witness ==
    \E u \in DOMAIN call :
        /\ call[u].transformError # NoError
        /\ transformCalls[u] = 1
        /\ call[u].fileExists = "false"
        /\ call[u].pc = "failed"

\* the call of upload u has gone past the existence check (line 125)
PastExistCheck(u) ==
    \/ call[u].pc \in {"transform", "putSign", "put", "backoff"}
    \/ call[u].pc \in {"done", "failed"} /\ PutCount(u) >= 1
    \/ call[u].transformError # NoError

\* compression is on and the extension, letter case aside, is one of
\* png, jpg, jpeg, gif, bmp, webp
ShouldCompress(u) ==
    /\ settings.enableCompression
    /\ toLowerCase(fileExtOf(call[u].fileName)) \in
           { <<"p","n","g">>, <<"j","p","g">>, <<"j","p","e","g">>,
             <<"g","i","f">>, <<"b","m","p">>, <<"w","e","b","p">> }

\* C12: a call that goes past the existence check calls the transformer
\* (once) exactly when compression is on and the extension is an image
\* extension; a call never calls it otherwise, and then the body of every
\* PUT is exactly the original bytes.
C12_TransformIffImage ==
    \A u \in DOMAIN call :
        /\ transformCalls[u] <= 1
        /\ transformCalls[u] = 1 => ShouldCompress(u)
        /\ (PastExistCheck(u) /\ ShouldCompress(u)) => transformCalls[u] = 1
        /\ ~ShouldCompress(u) =>
               \A i \in 1..PutCount(u) : PutsOf(u)[i].body = call[u].fileContent

C12_Witness ==
    \E u \in DOMAIN call :
        /\ call[u].fileName = <<"a",".","P","N","G">>
        /\ transformCalls[u] = 1
        /\ PutCount(u) = 1
        /\ PutsOf(u)[1].body # call[u].fileContent

\* the URL as the claim states it
ExpectedUrl(s, key) ==
    IF s.customDomain # <<>>
    THEN s.customDomain \o <<"/">> \o key
    ELSE <<"https://">> \o s.bucket \o <<".">> \o s.region \o <<".aliyuncs.com">>
         \o <<"/">> \o key

\* C13: the URL a call returns is customDomain + "/" + key when a custom
\* domain is configured and "https://" + bucket + "." + region +
\* ".aliyuncs.com" + "/" + key otherwise, on the short-circuit path and on
\* the upload path alike.
C13_ReturnedUrl ==
    \A u \in DOMAIN call :
        call[u].pc = "done" =>
            call[u].returned = ExpectedUrl(settings, call[u].ossPath)

C13_Witness ==
    \E u \in DOMAIN call :
        /\ call[u].pc = "done"
        /\ call[u].fileExists = "true"
        /\ PutCount(u) = 0
        /\ settings.customDomain = <<"https://cdn">>
        /\ call[u].returned = <<"https://cdn", "/">> \o call[u].ossPath

\* C14: the extension part of the storage key is the lower-cased suffix of
\* the file name, so that a.PNG and a.png with the same bytes get one key.
C14_LowercaseExtension ==
    \A u \in DOMAIN call :
        KeyComputed(u) =>
            call[u].ossPath =
                settings.path \o joinHex(digest(call[u].fileContent)) \o <<".">>
                \o toLowerCase(fileExtOf(call[u].fileName))

\* C15: the steps of a call come in the order hash, existence check,
\* transform, sign, transfer.  The HEAD is issued for the computed key; the
\* transformer is called only after the probe was answered "absent" (or was
\* skipped); no PUT signature exists while the hash, the probe or the
\* transformer is pending; no PUT is issued before its signature resolved,
\* and every PUT carries a PUT signature and the bytes the transformer left.
C15_StepOrder ==
    \A u \in DOMAIN call :
        /\ HeadCount(u) >= 1 =>
               /\ KeyComputed(u)
               /\ sent[u][1].method = "HEAD"
               /\ sent[u][1].url = endpointOf(settings, call[u].ossPath)
        /\ call[u].pc \in {"idle", "hash", "headSign", "head"} => transformCalls[u] = 0
        /\ transformCalls[u] >= 1 =>
               \/ call[u].skipExistCheck /\ HeadCount(u) = 0
               \/ HeadCount(u) = 1 /\ call[u].fileExists = "false"
        /\ call[u].pc \in {"idle", "hash", "headSign", "head", "transform"} =>
               call[u].signature.hmacOf[1] # <<"PUT">>
        /\ call[u].pc \in {"idle", "hash", "headSign", "head", "transform", "putSign"} =>
               PutCount(u) = 0
        /\ \A i \in 1..PutCount(u) :
               /\ PutsOf(u)[i].Authorization.signature.hmacOf[1] = <<"PUT">>
               /\ PutsOf(u)[i].body = call[u].finalContent

C15_Witness ==
    \E u \in DOMAIN call :
        /\ HeadCount(u) = 1
        /\ transformCalls[u] = 1
        /\ PutCount(u) = 2
        /\ call[u].finalContent # call[u].fileContent
        /\ call[u].pc = "done"

\* C16: a PUT is issued only when the signature has resolved and no PUT was
\* issued yet, or when the call waits in the backoff after a failed attempt
\* and the timer set at that failure (failure time + 2^retryCount * 1000 ms)
\* is due; no PUT is issued while another one is pending.
C16_SequentialRetries ==
    [][ \A u \in DOMAIN call :
          /\ (call[u].pc = "put" /\ call'[u].pc = "backoff") =>
                 /\ call'[u].wakeAt = now + pow2(call[u].retryCount) * 1000
                 /\ sent'[u] = sent[u]
          /\ (Len(sent'[u]) > Len(sent[u]) /\ sent'[u][Len(sent'[u])].method = "PUT") =>
                 /\ Len(sent'[u]) = Len(sent[u]) + 1
                 /\ call'[u].pc = "put"
                 /\ \/ call[u].pc = "putSign" /\ PutCount(u) = 0
                    \/ call[u].pc = "backoff" /\ now >= call[u].wakeAt
                       /\ ~putSucceeded(call[u].lastResponse)
      ]_vars

C16_Witness ==
    \E u \in DOMAIN call :
        /\ PutCount(u) = 4
        /\ PutsOf(u)[2].at - PutsOf(u)[1].at = 2000
        /\ PutsOf(u)[4].at - PutsOf(u)[3].at = 4000
        /\ ticks = 1

\* C17: a settings change made while an upload is in flight does not affect
\* it: the key prefix, the endpoint, the credentials and the signed resource
\* of every request, and the returned URL, are those of the configuration the
\* upload started with, so the returned URL names the object the PUT went to.
C17_SettingsSnapshot ==
    \A u \in DOMAIN call :
        LET s0 == call[u].startSettings
        IN  /\ KeyComputed(u) =>
                   call[u].ossPath = ossPathOf(s0, call[u].fileContent, call[u].fileExt)
            /\ \A i \in 1..Len(sent[u]) :
                   /\ sent[u][i].url = endpointOf(s0, call[u].ossPath)
                   /\ sent[u][i].Authorization.accessKeyId = s0.accessKeyId
                   /\ sent[u][i].Authorization.signature.key = s0.accessKeySecret
                   /\ sent[u][i].Authorization.signature.hmacOf[5] =
                          <<"/">> \o s0.bucket \o <<"/">> \o call[u].ossPath
            /\ transformCalls[u] = 1 => s0.enableCompression
            /\ call[u].pc = "done" =>
                   /\ call[u].returned = objectUrl(s0, call[u].ossPath)
                   /\ (PutCount(u) >= 1 /\ s0.customDomain = <<>>) =>
                          call[u].returned = PutsOf(u)[PutCount(u)].url

\* C18: the string-to-sign of a PUT is the fields PUT, empty, "image/" +
\* file name extension, timestamp, "/" + bucket + "/" + key; that of the
\* HEAD probe is HEAD, empty, empty, timestamp and the same resource; the
\* Authorization header is "OSS " + accessKeyId + ":" + signature with the
\* signature keyed by the access key secret, and the request URL addresses
\* the key the resource names.
C18_StringToSign ==
    \A u \in DOMAIN call :
        \A i \in 1..Len(sent[u]) :
            LET r == sent[u][i]
                resource == <<"/">> \o settings.bucket \o <<"/">> \o call[u].ossPath
            IN  /\ r.method \in {"HEAD", "PUT"}
                /\ r.Authorization.scheme = "OSS"
                /\ r.Authorization.accessKeyId = settings.accessKeyId
                /\ r.Authorization.signature.key = settings.accessKeySecret
                /\ r.url = <<"https://">> \o settings.bucket \o <<".">> \o settings.region
                           \o <<".aliyuncs.com">> \o <<"/">> \o call[u].ossPath
                /\ r.method = "HEAD" =>
                       r.Authorization.signature.hmacOf =
                           << <<"HEAD">>, <<>>, <<>>, r.Date, resource >>
                /\ r.method = "PUT" =>
                       /\ r.Authorization.signature.hmacOf =
                              << <<"PUT">>, <<>>,
                                 <<"image/">> \o fileExtOf(call[u].fileName),
                                 call[u].date, resource >>
                       /\ r.ContentType = <<"image/">> \o fileExtOf(call[u].fileName)

C18_Witness ==
    \E u \in DOMAIN call :
        /\ HeadCount(u) = 1
        /\ PutCount(u) >= 1
        /\ call[u].fileName = <<"a", ".", "P", "N", "G">>
        /\ PutsOf(u)[1].Authorization.signature.hmacOf[3] = <<"image/", "P", "N", "G">>
        /\ PutsOf(u)[1].Authorization.accessKeyId = <<"k">>

\* C19: when every pending request, transform call, signature, hash and
\* backoff timer eventually completes, every started upload eventually ends,
\* by returning a URL or by raising an error, and it issues at most one HEAD
\* probe, one transform call and four PUT attempts.
C19_Terminates ==
    /\ [](\A u \in Uploads :
             /\ HeadCount(u) <= 1
             /\ transformCalls[u] <= 1
             /\ PutCount(u) <= maxRetries + 1)
    /\ \A u \in Uploads :
           (call[u].pc # "idle") ~> (call[u].pc \in {"done", "failed"})

C19_Witness ==
    \E u \in DOMAIN call :
        /\ call[u].pc \in {"done", "failed"}
        /\ HeadCount(u) = 1
        /\ transformCalls[u] = 1
        /\ PutCount(u) = maxRetries + 1

\* C20: a call returns a URL only if its HEAD probe was answered with status
\* 200 or one of its PUT attempts was answered with status 200; the key of a
\* returned URL is one the call has seen present or has written.
C20_UrlOnlyAfter200 ==
    \A u \in DOMAIN call :
        call[u].pc = "done" =>
            /\ call[u].lastResponse = Returned(200)
            /\ \/ HeadCount(u) = 1 /\ PutCount(u) = 0 /\ call[u].fileExists = "true"
               \/ PutCount(u) >= 1 /\ call[u].fileExists # "true"
            /\ call[u].endpoint \in objects
            /\ call[u].returned # <<>>

C20_Witness ==
    \E u \in DOMAIN call :
        /\ call[u].pc = "done"
        /\ HeadCount(u) = 1
        /\ call[u].fileExists = "false"
        /\ PutCount(u) = 3
        /\ call[u].lastResponse = Returned(200)
        /\ objects = {call[u].endpoint}

\* C21: while two uploads of the same bytes and the same extension are both
\* running and the store does not hold their key, at most one of them has
\* issued a PUT; and when both have returned, they returned the same URL.
C21_ConcurrentDedup ==
    \A u, v \in DOMAIN call :
        ( /\ u # v
          /\ call[u].fileContent = call[v].fileContent
          /\ call[u].fileExt = call[v].fileExt ) =>
            /\ ( /\ call[u].pc \in {"put", "backoff"}
                 /\ call[v].pc \in {"put", "backoff"}
                 /\ call[u].endpoint \notin objects ) =>
                   (PutCount(u) = 0 \/ PutCount(v) = 0)
            /\ (call[u].pc = "done" /\ call[v].pc = "done") =>
                   call[u].returned = call[v].returned

====
